---- MODULE Spec2Model ----
(***************************************************************************)
(* Model of the two chat front-ends of the repository:                     *)
(*   src/chatUI-Sqlite.py   role/content message rows, last_updated,       *)
(*                          cached transcript in st.session_state          *)
(*   src/chatUI-Copilot.py  paired (user_message, llm_response) rows,      *)
(*                          Retry button                                   *)
(* The variable `variant` says which of the two programs runs.             *)
(*                                                                         *)
(* Spec      : the Streamlit UI flows (page load, new chat, select a       *)
(*             session, chat input, retry); every datetime.now() of the    *)
(*             one UI process reads a later instant than the previous one. *)
(* SpecSidebar : the UI flows of chatUI-Sqlite.py with prompts whose        *)
(*             lengths lie around the sidebar's display length.            *)
(* SpecStore : the persistence functions called directly with arbitrary    *)
(*             arguments and arbitrary wall-clock readings.                *)
(***************************************************************************)
EXTENDS Integers, Sequences, FiniteSets

\* ---------------------------------------------------------------- bounds
MaxSessions == 2
MaxTurns == 2
MaxRows == 2

\* ---------------------------------------------------------------- values
Variants == {"Sqlite", "Copilot"}
SessionIds == 1..MaxSessions
Unset == 0
\* the instants a wall-clock reading of a direct store call may return
Instants == {1, 2}
Prompts == {"hi", "yo"}
Replies == {"", "pong"}
Outcomes == {"ok", "RequestException", "KeyError"}
SqliteCalls == {<<"user", "hi">>, <<"assistant", "pong">>}
CopilotCalls == {<<"hi", "pong">>, <<"yo", "">>}

VARIABLES variant, db, session_state, pc, inflight, last, raised, clock, conn

vars == <<variant, db, session_state, pc, inflight, last, raised, clock, conn>>

\* ------------------------------------------------------------ statements
Result(d, e) == [db |-> d, raised |-> e]

\* sqlite3.connect() without "PRAGMA foreign_keys = ON": enforcement is off
foreign_keys == FALSE

SessionIdsOf(d) == {s.session_id : s \in d.sessions}

\* mutant: CREATE TABLE after dropping the table, so its rows are lost
CreateTable_dropping(d, name) ==
    IF name = "messages"
    THEN [d EXCEPT !.tables = @ \cup {name}, !.messages = <<>>]
    ELSE [d EXCEPT !.tables = @ \cup {name}, !.sessions = {}]

CreateTableIfNotExists(d, name) ==
    IF name \in d.tables THEN d ELSE [d EXCEPT !.tables = @ \cup {name}]

Sqlite_init_db(d) ==
    Result(CreateTableIfNotExists(CreateTableIfNotExists(d, "chat_sessions"),
                                  "messages"), "none")

Copilot_init_db(d) ==
    Result(CreateTableIfNotExists(CreateTableIfNotExists(d, "sessions"),
                                  "messages"), "none")

\* mutant: the new row overwrites the newest row of the table
Sqlite_InsertMessage_overwriting(d, session_id, role, content, t) ==
    IF "messages" \notin d.tables THEN Result(d, "OperationalError")
    ELSE IF d.messages = <<>>
         THEN Result([d EXCEPT !.messages =
                 <<[id |-> 1, session_id |-> session_id, role |-> role,
                    content |-> content, timestamp |-> t]>>], "none")
    ELSE Result([d EXCEPT !.messages[Len(d.messages)] =
                    [id |-> Len(d.messages), session_id |-> session_id,
                     role |-> role, content |-> content, timestamp |-> t]],
                "none")

Sqlite_InsertMessage(d, session_id, role, content, t) ==
    IF "messages" \notin d.tables THEN Result(d, "OperationalError")
    ELSE IF foreign_keys /\ session_id \notin SessionIdsOf(d)
         THEN Result(d, "IntegrityError")
    ELSE Result([d EXCEPT !.messages =
                    Append(@, [id |-> Len(@) + 1, session_id |-> session_id,
                               role |-> role, content |-> content,
                               timestamp |-> t])], "none")

\* mutant: the UPDATE of last_updated is missing
Sqlite_UpdateLastUpdated_skipped(d, session_id, t) == Result(d, "none")

Sqlite_UpdateLastUpdated(d, session_id, t) ==
    IF "chat_sessions" \notin d.tables THEN Result(d, "OperationalError")
    ELSE Result([d EXCEPT !.sessions =
                    {IF s.session_id = session_id
                     THEN [s EXCEPT !.last_updated = t] ELSE s : s \in @}],
                "none")

\* mutant: conn.commit() is missing, the rows are rolled back at close
Sqlite_save_message_uncommitted(d, session_id, role, content, t) ==
    Result(d, "none")

\* INSERT, UPDATE, then one commit: a failing statement leaves nothing behind
Sqlite_save_message(d, session_id, role, content, t) ==
    LET ins == Sqlite_InsertMessage(d, session_id, role, content, t) IN
    IF ins.raised # "none" THEN Result(d, ins.raised)
    ELSE LET upd == Sqlite_UpdateLastUpdated(ins.db, session_id, t) IN
         IF upd.raised # "none" THEN Result(d, upd.raised) ELSE upd

\* mutant: INSERT OR REPLACE, which overwrites the row of an existing id
Sqlite_create_new_session_replace(d, uuid, t) ==
    IF "chat_sessions" \notin d.tables THEN Result(d, "OperationalError")
    ELSE Result([d EXCEPT !.sessions =
                    {s \in @ : s.session_id # uuid}
                    \cup {[session_id |-> uuid, created_at |-> t,
                           last_updated |-> t]}], "none")

Sqlite_create_new_session(d, uuid, t) ==
    IF "chat_sessions" \notin d.tables THEN Result(d, "OperationalError")
    ELSE IF uuid \in SessionIdsOf(d) THEN Result(d, "IntegrityError")
    ELSE Result([d EXCEPT !.sessions =
                    @ \cup {[session_id |-> uuid, created_at |-> t,
                              last_updated |-> t]}], "none")

\* mutant: a retry UPDATEs the row of the same user message instead of
\* inserting a new one
Copilot_save_message_update(d, session_id, user_message, llm_response, t) ==
    LET I == {i \in DOMAIN d.messages :
                /\ d.messages[i].session_id = session_id
                /\ d.messages[i].user_message = user_message}
    IN IF "messages" \notin d.tables THEN Result(d, "OperationalError")
       ELSE IF I # {}
       THEN Result([d EXCEPT !.messages =
                       [i \in DOMAIN @ |->
                           IF i \in I
                           THEN [@[i] EXCEPT !.llm_response = llm_response]
                           ELSE @[i]]], "none")
       ELSE Result([d EXCEPT !.messages =
                       Append(@, [id |-> Len(@) + 1, session_id |-> session_id,
                                  user_message |-> user_message,
                                  llm_response |-> llm_response,
                                  timestamp |-> t])], "none")

Copilot_save_message(d, session_id, user_message, llm_response, t) ==
    IF "messages" \notin d.tables THEN Result(d, "OperationalError")
    ELSE IF foreign_keys /\ session_id \notin SessionIdsOf(d)
         THEN Result(d, "IntegrityError")
    ELSE Result([d EXCEPT !.messages =
                    Append(@, [id |-> Len(@) + 1, session_id |-> session_id,
                               user_message |-> user_message,
                               llm_response |-> llm_response,
                               timestamp |-> t])], "none")

\* mutant: the session row is not inserted
Copilot_create_session_skipped(d, session_id, t) == Result(d, "none")

Copilot_create_session(d, session_id, t) ==
    IF "sessions" \notin d.tables THEN Result(d, "OperationalError")
    ELSE IF session_id \in SessionIdsOf(d) THEN Result(d, "IntegrityError")
    ELSE Result([d EXCEPT !.sessions =
                    @ \cup {[session_id |-> session_id, created_at |-> t]}],
                "none")

\* ----------------------------------------------------------- connections
\* the connection of a database function when the function is left, given
\* what its statements raised.  conn.close() is the last statement of every
\* function and no function has a try/finally: a raising statement skips it.
Sqlite_conn_close(e) == IF e = "none" THEN "closed" ELSE "open"

\* the context manager closes the connection in its finally clause
Copilot_get_db_connection(e) == "closed"

\* --------------------------------------------------------------- queries
\* ORDER BY key: every arrangement of the rows I with ascending keys; rows
\* with equal keys may come in any order.  Timestamps are stored as the text
\* "YYYY-MM-DD HH:MM:SS[.ffffff]", whose text order is the order of the
\* instants, so a timestamp is modelled by the number of its instant.
RECURSIVE OrderBy(_, _)
OrderBy(I, key) ==
    IF I = {} THEN {<<>>}
    ELSE UNION {{<<i>> \o r : r \in OrderBy(I \ {i}, key)} :
                i \in {i \in I : \A j \in I : key[i] <= key[j]}}

\* mutant: ORDER BY timestamp DESC
Sqlite_get_session_messages_desc(d, session_id) ==
    LET I == {i \in DOMAIN d.messages : d.messages[i].session_id = session_id}
        key == [i \in I |-> 0 - d.messages[i].timestamp]
    IN {[k \in 1..Len(o) |-> [role |-> d.messages[o[k]].role,
                              content |-> d.messages[o[k]].content]] :
        o \in OrderBy(I, key)}

Sqlite_get_session_messages(d, session_id) ==
    LET I == {i \in DOMAIN d.messages : d.messages[i].session_id = session_id}
        key == [i \in I |-> d.messages[i].timestamp]
    IN {[k \in 1..Len(o) |-> [role |-> d.messages[o[k]].role,
                              content |-> d.messages[o[k]].content]] :
        o \in OrderBy(I, key)}

\* mutant: the WHERE session_id = ? filter is missing
Copilot_get_session_messages_unfiltered(d, session_id) ==
    LET I == DOMAIN d.messages
        key == [i \in I |-> d.messages[i].timestamp]
    IN {[k \in 1..Len(o) |->
            [user_message |-> d.messages[o[k]].user_message,
             llm_response |-> d.messages[o[k]].llm_response]] :
        o \in OrderBy(I, key)}

Copilot_get_session_messages(d, session_id) ==
    LET I == {i \in DOMAIN d.messages : d.messages[i].session_id = session_id}
        key == [i \in I |-> d.messages[i].timestamp]
    IN {[k \in 1..Len(o) |->
            [user_message |-> d.messages[o[k]].user_message,
             llm_response |-> d.messages[o[k]].llm_response]] :
        o \in OrderBy(I, key)}

Sqlite_get_first_user_message(d, session_id) ==
    LET I == {i \in DOMAIN d.messages : /\ d.messages[i].session_id = session_id
                                        /\ d.messages[i].role = "user"}
        key == [i \in I |-> d.messages[i].timestamp]
    IN IF I = {} THEN {""}
       ELSE {d.messages[o[1]].content : o \in OrderBy(I, key)}

\* chat_sessions INNER JOIN messages: the <<session row, message row>> pairs
Sqlite_InnerJoin(d) ==
    {p \in d.sessions \X (DOMAIN d.messages) :
        p[1].session_id = d.messages[p[2]].session_id}

\* mutant: SELECT without DISTINCT keeps one joined pair per message
Sqlite_NotDistinct(d, J) == J

\* SELECT DISTINCT on the session columns: one joined pair per session row
Sqlite_Distinct(d, J) ==
    {p \in J : \A q \in J : q[1] = p[1] => q[2] >= p[2]}

\* mutant: ORDER BY chat_sessions.created_at DESC
Sqlite_get_all_sessions_by_created(d) ==
    LET S == Sqlite_Distinct(d, Sqlite_InnerJoin(d))
        key == [p \in S |-> 0 - p[1].created_at]
    IN {[k \in 1..Len(o) |-> o[k][1]] : o \in OrderBy(S, key)}

Sqlite_get_all_sessions(d) ==
    LET S == Sqlite_Distinct(d, Sqlite_InnerJoin(d))
        key == [p \in S |-> 0 - p[1].last_updated]
    IN {[k \in 1..Len(o) |-> o[k][1]] : o \in OrderBy(S, key)}

Copilot_get_sessions(d) ==
    LET key == [s \in d.sessions |-> 0 - s.created_at]
    IN OrderBy(d.sessions, key)

\* ------------------------------------------------------------ the sidebar
DisplayLength == 24
TruncateAbove == 27

\* mutant: truncates every text longer than the display length
Sqlite_display_text_short(first_message) ==
    IF Len(first_message) > DisplayLength
    THEN SubSeq(first_message, 1, DisplayLength) \o "..."
    ELSE first_message

\* display_text of a sidebar button
Sqlite_display_text(first_message) ==
    IF Len(first_message) > TruncateAbove
    THEN SubSeq(first_message, 1, DisplayLength) \o "..."
    ELSE first_message

\* the labels the sidebar can show for a session
Sqlite_Preview(d, session_id) ==
    {Sqlite_display_text(first_message) :
        first_message \in Sqlite_get_first_user_message(d, session_id)}

\* ------------------------------------------------------------ the gateway
\* the value send_message returns (None or a text) and what it lets escape
Response(none, text, e) == [none |-> none, text |-> text, raised |-> e]

Sqlite_send_message(outcome, reply) ==
    IF outcome = "ok" THEN Response(FALSE, reply, "none")
    ELSE IF outcome = "RequestException" THEN Response(TRUE, "", "none")
    ELSE Response(TRUE, "", outcome)

Copilot_send_message(outcome, reply) ==
    IF outcome = "ok" THEN Response(FALSE, reply, "none")
    ELSE Response(TRUE, "", outcome)

\* Python truthiness of "if response:"
Truthy(response) == ~response.none /\ response.text # ""

\* ------------------------------------------------------------------ Init
EmptyDb == [tables |-> {}, sessions |-> {}, messages |-> <<>>]
NoSessionState == [session_id |-> Unset, messages |-> <<>>]
NoCall == [kind |-> "none", sid |-> Unset, text |-> "", row |-> 0, pre |-> <<>>]
NoOp == [op |-> "none", sid |-> Unset, text |-> "", row |-> 0,
         outcome |-> "none", reply |-> "", pre |-> <<>>]

Init ==
    /\ variant \in Variants
    /\ db = EmptyDb
    /\ session_state = NoSessionState
    /\ pc = "idle"
    /\ inflight = NoCall
    /\ last = NoOp
    /\ raised = "none"
    /\ clock = 0
    /\ conn = "closed"

\* ----------------------------------------------------- UI flows: Sqlite
\* datetime.now() of the UI process: later than every earlier reading
Now == clock + 1

CurrentSession == session_state.session_id

\* a browser session opens the page: the script runs with an empty
\* st.session_state and no widget event
Sqlite_PageLoad(uuid) ==
    /\ variant = "Sqlite" /\ pc = "idle"
    /\ uuid \notin SessionIdsOf(db)
    /\ LET cr == Sqlite_create_new_session(Sqlite_init_db(db).db, uuid, Now) IN
        /\ db' = cr.db
        /\ raised' = cr.raised
        /\ conn' = Sqlite_conn_close(cr.raised)
        /\ session_state' = IF cr.raised = "none"
                            THEN [session_id |-> uuid, messages |-> <<>>]
                            ELSE NoSessionState
    /\ clock' = Now
    /\ UNCHANGED <<variant, pc, inflight, last>>

Sqlite_StartNewChat(uuid) ==
    /\ variant = "Sqlite" /\ pc = "idle"
    /\ CurrentSession # Unset
    /\ uuid \notin SessionIdsOf(db)
    /\ LET cr == Sqlite_create_new_session(Sqlite_init_db(db).db, uuid, Now) IN
        /\ db' = cr.db
        /\ raised' = cr.raised
        /\ conn' = Sqlite_conn_close(cr.raised)
        /\ session_state' = IF cr.raised = "none"
                            THEN [session_id |-> uuid, messages |-> <<>>]
                            ELSE session_state
    /\ clock' = Now
    /\ UNCHANGED <<variant, pc, inflight, last>>

Sqlite_SelectSession(session_id) ==
    /\ variant = "Sqlite" /\ pc = "idle"
    /\ CurrentSession # Unset
    /\ \E sessions \in Sqlite_get_all_sessions(Sqlite_init_db(db).db) :
          \E k \in DOMAIN sessions : sessions[k].session_id = session_id
    /\ \E messages \in Sqlite_get_session_messages(Sqlite_init_db(db).db,
                                                   session_id) :
          session_state' = [session_id |-> session_id, messages |-> messages]
    /\ db' = Sqlite_init_db(db).db
    /\ raised' = "none"
    /\ conn' = "closed"
    /\ UNCHANGED <<variant, pc, inflight, last, clock>>

Sqlite_ChatInput(prompt) ==
    /\ variant = "Sqlite" /\ pc = "idle"
    /\ CurrentSession # Unset
    /\ Len(db.messages) + 2 <= 2 * MaxTurns
    /\ LET sv == Sqlite_save_message(Sqlite_init_db(db).db, CurrentSession,
                                     "user", prompt, Now) IN
        /\ db' = sv.db
        /\ raised' = sv.raised
        /\ conn' = Sqlite_conn_close(sv.raised)
        /\ pc' = IF sv.raised = "none" THEN "gateway" ELSE "idle"
        /\ inflight' = IF sv.raised = "none"
                       THEN [kind |-> "input", sid |-> CurrentSession,
                             text |-> prompt, row |-> 0, pre |-> db.messages]
                       ELSE inflight
    /\ session_state' = [session_state EXCEPT !.messages =
                            Append(@, [role |-> "user", content |-> prompt])]
    /\ clock' = Now
    /\ UNCHANGED <<variant, last>>

Sqlite_GatewayReturn(outcome, reply) ==
    /\ variant = "Sqlite" /\ pc = "gateway"
    /\ LET response == Sqlite_send_message(outcome, reply)
           sv == Sqlite_save_message(db, CurrentSession, "assistant",
                                     response.text, Now)
       IN IF response.raised = "none" /\ Truthy(response)
          THEN /\ db' = sv.db
               /\ raised' = sv.raised
               /\ conn' = Sqlite_conn_close(sv.raised)
               /\ session_state' = [session_state EXCEPT !.messages =
                     Append(@, [role |-> "assistant", content |-> response.text])]
               /\ clock' = Now
          ELSE /\ raised' = response.raised
               /\ conn' = "closed"
               /\ UNCHANGED <<db, session_state, clock>>
    /\ pc' = "idle"
    /\ inflight' = NoCall
    /\ last' = [op |-> inflight.kind, sid |-> inflight.sid, text |-> inflight.text,
                row |-> inflight.row, outcome |-> outcome,
                reply |-> IF outcome = "ok" THEN reply ELSE "",
                pre |-> inflight.pre]
    /\ UNCHANGED variant

\* ---------------------------------------------------- UI flows: Copilot
\* hash(user_msg) in the widget keys: equal texts give equal keys
WidgetKey(prefix, user_msg) == <<prefix, user_msg>>

\* the history loop stops with a duplicate-key error at the first row whose
\* retry_ key was already used: the number of rows rendered before that
Copilot_RenderedRows(messages) ==
    LET Fresh(n) == \A i, j \in 1..n :
            i # j => WidgetKey("retry_", messages[i].user_message)
                       # WidgetKey("retry_", messages[j].user_message)
    IN CHOOSE n \in 0..Len(messages) :
          /\ Fresh(n)
          /\ \A m \in 0..Len(messages) : Fresh(m) => m <= n

Copilot_PageLoad(uuid) ==
    /\ variant = "Copilot" /\ pc = "idle"
    /\ uuid \notin SessionIdsOf(db)
    /\ LET cr == Copilot_create_session(Copilot_init_db(db).db, uuid, Now) IN
        /\ db' = cr.db
        /\ raised' = cr.raised
        /\ conn' = Copilot_get_db_connection(cr.raised)
    /\ session_state' = [session_id |-> uuid, messages |-> <<>>]
    /\ clock' = Now
    /\ UNCHANGED <<variant, pc, inflight, last>>

Copilot_SelectSession(session_id) ==
    /\ variant = "Copilot" /\ pc = "idle"
    /\ CurrentSession # Unset
    /\ \E sessions \in Copilot_get_sessions(Copilot_init_db(db).db) :
          \E k \in DOMAIN sessions : sessions[k].session_id = session_id
    /\ session_state' = [session_state EXCEPT !.session_id = session_id]
    /\ db' = Copilot_init_db(db).db
    /\ raised' = "none"
    /\ conn' = "closed"
    /\ UNCHANGED <<variant, pc, inflight, last, clock>>

Copilot_ChatInput(prompt) ==
    /\ variant = "Copilot" /\ pc = "idle"
    /\ CurrentSession # Unset
    /\ Len(db.messages) + 1 <= MaxTurns
    /\ \E messages \in Copilot_get_session_messages(Copilot_init_db(db).db,
                                                    CurrentSession) :
          Copilot_RenderedRows(messages) = Len(messages)
    /\ db' = Copilot_init_db(db).db
    /\ pc' = "gateway"
    /\ inflight' = [kind |-> "input", sid |-> CurrentSession, text |-> prompt,
                    row |-> 0, pre |-> db.messages]
    /\ raised' = "none"
    /\ conn' = "closed"
    /\ UNCHANGED <<variant, session_state, last, clock>>

Copilot_Retry(row) ==
    /\ variant = "Copilot" /\ pc = "idle"
    /\ CurrentSession # Unset
    /\ Len(db.messages) + 1 <= MaxTurns
    /\ \E messages \in Copilot_get_session_messages(Copilot_init_db(db).db,
                                                    CurrentSession) :
          /\ row \in 1..Copilot_RenderedRows(messages)
          /\ inflight' = [kind |-> "retry", sid |-> CurrentSession,
                          text |-> messages[row].user_message,
                          row |-> row, pre |-> db.messages]
    /\ db' = Copilot_init_db(db).db
    /\ pc' = "gateway"
    /\ raised' = "none"
    /\ conn' = "closed"
    /\ UNCHANGED <<variant, session_state, last, clock>>

Copilot_GatewayReturn(outcome, reply) ==
    /\ variant = "Copilot" /\ pc = "gateway"
    /\ LET response == Copilot_send_message(outcome, reply)
           sv == Copilot_save_message(db, CurrentSession, inflight.text,
                                      response.text, Now)
       IN IF response.raised = "none"
          THEN /\ db' = sv.db
               /\ raised' = sv.raised
               /\ conn' = Copilot_get_db_connection(sv.raised)
               /\ clock' = Now
          ELSE /\ raised' = response.raised
               /\ conn' = "closed"
               /\ UNCHANGED <<db, clock>>
    /\ pc' = "idle"
    /\ inflight' = NoCall
    /\ last' = [op |-> inflight.kind, sid |-> inflight.sid, text |-> inflight.text,
                row |-> inflight.row, outcome |-> outcome,
                reply |-> IF outcome = "ok" THEN reply ELSE "",
                pre |-> inflight.pre]
    /\ UNCHANGED <<variant, session_state>>

\* uuid.uuid4(): an id no session has yet.  The programs only compare session
\* ids for equality, so every unused id leads to the same behaviour up to
\* renaming; the smallest unused one stands for all of them.
uuid4(d) ==
    {u \in SessionIds \ SessionIdsOf(d) :
        \A v \in SessionIds \ SessionIdsOf(d) : u <= v}

Next ==
    \/ \E uuid \in uuid4(db) : Sqlite_PageLoad(uuid)
    \/ \E uuid \in uuid4(db) : Sqlite_StartNewChat(uuid)
    \/ \E session_id \in SessionIds : Sqlite_SelectSession(session_id)
    \/ \E prompt \in Prompts : Sqlite_ChatInput(prompt)
    \/ \E outcome \in Outcomes, reply \in Replies : Sqlite_GatewayReturn(outcome, reply)
    \/ \E uuid \in uuid4(db) : Copilot_PageLoad(uuid)
    \/ \E session_id \in SessionIds : Copilot_SelectSession(session_id)
    \/ \E prompt \in Prompts : Copilot_ChatInput(prompt)
    \/ \E row \in 1..MaxTurns : Copilot_Retry(row)
    \/ \E outcome \in Outcomes, reply \in Replies : Copilot_GatewayReturn(outcome, reply)

Spec == Init /\ [][Next]_vars

\* --------------------------------------- the Sqlite UI flows, long prompts
\* prompts of 25, of 27 and of 28 characters
PreviewPrompts ==
    {"abcdefghijklmnopqrstuvwxy", "abcdefghijklmnopqrstuvwxyz0",
     "0abcdefghijklmnopqrstuvwxyz1"}

InitSidebar == Init /\ variant = "Sqlite"

NextSidebar ==
    \/ \E uuid \in uuid4(db) : Sqlite_PageLoad(uuid)
    \/ \E uuid \in uuid4(db) : Sqlite_StartNewChat(uuid)
    \/ \E session_id \in SessionIds : Sqlite_SelectSession(session_id)
    \/ \E prompt \in PreviewPrompts : Sqlite_ChatInput(prompt)
    \/ \E outcome \in {"ok", "RequestException"} : Sqlite_GatewayReturn(outcome, "pong")

SpecSidebar == InitSidebar /\ [][NextSidebar]_vars

\* ------------------------------------------- the store functions, called
\* directly: any session id, any turn fields, any wall-clock reading
StoreOp(op, session_id) == [NoOp EXCEPT !.op = op, !.sid = session_id]

Sqlite_call_init_db ==
    /\ variant = "Sqlite"
    /\ db' = Sqlite_init_db(db).db
    /\ raised' = Sqlite_init_db(db).raised
    /\ conn' = Sqlite_conn_close(Sqlite_init_db(db).raised)
    /\ last' = StoreOp("init_db", Unset)
    /\ UNCHANGED <<variant, session_state, pc, inflight, clock>>

Sqlite_call_save_message(session_id, role, content, t) ==
    /\ variant = "Sqlite"
    /\ Len(db.messages) < MaxRows
    /\ LET sv == Sqlite_save_message(db, session_id, role, content, t) IN
        /\ db' = sv.db
        /\ raised' = sv.raised
        /\ conn' = Sqlite_conn_close(sv.raised)
    /\ last' = StoreOp("save_message", session_id)
    /\ UNCHANGED <<variant, session_state, pc, inflight, clock>>

Sqlite_call_create_new_session(uuid, t) ==
    /\ variant = "Sqlite"
    /\ LET cr == Sqlite_create_new_session(db, uuid, t) IN
        /\ db' = cr.db
        /\ raised' = cr.raised
        /\ conn' = Sqlite_conn_close(cr.raised)
    /\ last' = StoreOp("create_session", uuid)
    /\ UNCHANGED <<variant, session_state, pc, inflight, clock>>

Copilot_call_init_db ==
    /\ variant = "Copilot"
    /\ db' = Copilot_init_db(db).db
    /\ raised' = Copilot_init_db(db).raised
    /\ conn' = Copilot_get_db_connection(Copilot_init_db(db).raised)
    /\ last' = StoreOp("init_db", Unset)
    /\ UNCHANGED <<variant, session_state, pc, inflight, clock>>

Copilot_call_save_message(session_id, user_message, llm_response, t) ==
    /\ variant = "Copilot"
    /\ Len(db.messages) < MaxRows
    /\ LET sv == Copilot_save_message(db, session_id, user_message,
                                      llm_response, t) IN
        /\ db' = sv.db
        /\ raised' = sv.raised
        /\ conn' = Copilot_get_db_connection(sv.raised)
    /\ last' = StoreOp("save_message", session_id)
    /\ UNCHANGED <<variant, session_state, pc, inflight, clock>>

Copilot_call_create_session(session_id, t) ==
    /\ variant = "Copilot"
    /\ LET cr == Copilot_create_session(db, session_id, t) IN
        /\ db' = cr.db
        /\ raised' = cr.raised
        /\ conn' = Copilot_get_db_connection(cr.raised)
    /\ last' = StoreOp("create_session", session_id)
    /\ UNCHANGED <<variant, session_state, pc, inflight, clock>>

NextStore ==
    \/ Sqlite_call_init_db
    \/ \E session_id \in SessionIds, c \in SqliteCalls, t \in Instants :
          Sqlite_call_save_message(session_id, c[1], c[2], t)
    \/ \E uuid \in SessionIds, t \in Instants : Sqlite_call_create_new_session(uuid, t)
    \/ Copilot_call_init_db
    \/ \E session_id \in SessionIds, c \in CopilotCalls, t \in Instants :
          Copilot_call_save_message(session_id, c[1], c[2], t)
    \/ \E session_id \in SessionIds, t \in Instants :
          Copilot_call_create_session(session_id, t)

SpecStore == Init /\ [][NextStore]_vars

\* ------------------------------------------------------------- rendering
\* the history loops: one chat bubble per role/content row, a user bubble
\* and an assistant bubble per paired row
Sqlite_Display(messages) ==
    [k \in 1..Len(messages) |-> <<messages[k].role, messages[k].content>>]

Copilot_Display(messages) ==
    [k \in 1..(2 * Len(messages)) |->
        IF k % 2 = 1 THEN <<"user", messages[(k + 1) \div 2].user_message>>
        ELSE <<"assistant", messages[k \div 2].llm_response>>]

\* the transcripts of a session that the running variant can retrieve from d
Transcripts(d, session_id) ==
    IF variant = "Sqlite"
    THEN {Sqlite_Display(m) : m \in Sqlite_get_session_messages(d, session_id)}
    ELSE {Copilot_Display(m) : m \in Copilot_get_session_messages(d, session_id)}

\* the store as it was when the last turn began
PreDb == [db EXCEPT !.messages = last.pre]

\* =================================================================== C1
\* C1 (as claimed): a message insert for a session id with no session row
\* fails and leaves the message table unchanged, so no message row ever
\* carries a session_id that is absent from the session table.
C1_NoOrphanMessage ==
    \A i \in DOMAIN db.messages : db.messages[i].session_id \in SessionIdsOf(db)

\* =================================================================== C2
\* C2 (as claimed): after a new-input turn whose gateway call failed, the
\* session's transcript is the transcript before the turn followed by
\* exactly one record of the user's message, and no reply record.
C2_FailedTurnKeepsUserMessage ==
    (pc = "idle" /\ last.op = "input" /\ last.outcome # "ok")
    => Transcripts(db, last.sid) =
          {Append(r, <<"user", last.text>>) : r \in Transcripts(PreDb, last.sid)}

\* =================================================================== C3
\* C3 (as claimed): while the gateway is being called for a new input, the
\* user's message is already committed to the store.
C3_SavedBeforeSend ==
    (pc = "gateway" /\ inflight.kind = "input")
    => \E i \in DOMAIN db.messages :
          /\ i > Len(inflight.pre)
          /\ db.messages[i].session_id = inflight.sid
          /\ IF variant = "Sqlite"
             THEN db.messages[i].role = "user"
                  /\ db.messages[i].content = inflight.text
             ELSE db.messages[i].user_message = inflight.text

\* =================================================================== C4
\* C4 (as claimed): after a turn whose gateway call returned a reply (any
\* reply, the empty text included), the transcript is the one before the
\* turn followed by the user message and then that reply.
C4_ReplySaved ==
    (pc = "idle" /\ last.op = "input" /\ last.outcome = "ok")
    => Transcripts(db, last.sid) =
          {r \o <<<<"user", last.text>>, <<"assistant", last.reply>>>> :
              r \in Transcripts(PreDb, last.sid)}

\* =================================================================== C5
RowsOf(d, session_id) ==
    {i \in DOMAIN d.messages : d.messages[i].session_id = session_id}

InInsertionOrder(d, session_id) ==
    SelectSeq(d.messages, LAMBDA m : m.session_id = session_id)

StrictlyIncreasing(d, session_id) ==
    \A i, j \in RowsOf(d, session_id) :
        i < j => d.messages[i].timestamp < d.messages[j].timestamp

\* C5: for every session whose messages were inserted at strictly increasing
\* times, get_session_messages returns exactly those messages in insertion
\* order (one possible result); for a session without messages, the empty
\* sequence.
C5_TranscriptInInsertionOrder ==
    \A sid \in SessionIds :
        LET io == InInsertionOrder(db, sid) IN
        StrictlyIncreasing(db, sid) =>
            IF variant = "Sqlite"
            THEN Sqlite_get_session_messages(db, sid) =
                    {[k \in 1..Len(io) |-> [role |-> io[k].role,
                                            content |-> io[k].content]]}
            ELSE Copilot_get_session_messages(db, sid) =
                    {[k \in 1..Len(io) |->
                        [user_message |-> io[k].user_message,
                         llm_response |-> io[k].llm_response]]}

\* two different messages of one session, inserted at increasing times,
\* beside a session that has no message
C5_Witness ==
    \E sid, other \in SessionIds :
        /\ Cardinality(RowsOf(db, sid)) = 2
        /\ StrictlyIncreasing(db, sid)
        /\ Transcripts(db, sid) # {<<>>}
        /\ \A r \in Transcripts(db, sid) : r[1] # r[2]
        /\ RowsOf(db, other) = {}

\* =================================================================== C6
AppendedTo(session_id) ==
    /\ Len(db'.messages) = Len(db.messages) + 1
    /\ db'.messages[Len(db'.messages)].session_id = session_id

\* C6: a step that appends a message to session A leaves the transcript of
\* every other session B unchanged.
C6_SessionIsolation ==
    [][\A A, B \in SessionIds :
          (A # B /\ AppendedTo(A)) =>
             IF variant = "Sqlite"
             THEN Sqlite_get_session_messages(db', B)
                     = Sqlite_get_session_messages(db, B)
             ELSE Copilot_get_session_messages(db', B)
                     = Copilot_get_session_messages(db, B)]_vars

\* the last store call appended to one session while another has a message
C6_Witness ==
    /\ last.op = "save_message" /\ raised = "none"
    /\ \E B \in SessionIds : B # last.sid /\ RowsOf(db, B) # {}
    /\ RowsOf(db, last.sid) # {}

\* =================================================================== C7
\* C7: a retry whose gateway call succeeds keeps every stored row, appends
\* exactly one row carrying the new reply, and leaves the old transcript a
\* prefix of the new one; the text sent to the gateway is the user text of
\* the retried row.
C7_RetryAppendsOnly ==
    /\ (pc = "gateway" /\ inflight.kind = "retry") =>
          \A m \in Copilot_get_session_messages(db, inflight.sid) :
             /\ inflight.row \in DOMAIN m
             /\ m[inflight.row].user_message = inflight.text
    /\ (pc = "idle" /\ last.op = "retry" /\ last.outcome = "ok") =>
          /\ Len(db.messages) = Len(last.pre) + 1
          /\ SubSeq(db.messages, 1, Len(last.pre)) = last.pre
          /\ db.messages[Len(db.messages)].session_id = last.sid
          /\ db.messages[Len(db.messages)].llm_response = last.reply
          /\ \A new \in Copilot_get_session_messages(db, last.sid) :
                \A old \in Copilot_get_session_messages(PreDb, last.sid) :
                   /\ new = Append(old, [user_message |-> last.text,
                                         llm_response |-> last.reply])
                   /\ old[last.row].user_message = last.text

\* a retry has succeeded with a reply that differs from the retried row's
C7_Witness ==
    /\ pc = "idle" /\ last.op = "retry" /\ last.outcome = "ok"
    /\ \E old \in Copilot_get_session_messages(PreDb, last.sid) :
          old[last.row].llm_response # last.reply

\* =================================================================== C8
\* C8: a call of init_db raises nothing, keeps every session and message
\* row, and changes nothing at all once the tables exist.
C8_InitDbIdempotent ==
    [][last'.op = "init_db" =>
          /\ raised' = "none"
          /\ db'.sessions = db.sessions
          /\ db'.messages = db.messages
          /\ db'.tables = (IF variant = "Sqlite" THEN {"chat_sessions", "messages"}
                           ELSE {"sessions", "messages"})
          /\ db.tables # {} => db' = db]_vars

\* init_db was called on a store that already holds sessions and messages
C8_Witness ==
    /\ last.op = "init_db"
    /\ db.sessions # {} /\ db.messages # <<>>

\* =================================================================== C9
\* C9: creating a session with an id that is already in the session table
\* raises IntegrityError to the caller and leaves the store as it was; no
\* session id is ever in two rows.
C9_DuplicateSessionRejected ==
    /\ [](\A s1, s2 \in db.sessions : s1.session_id = s2.session_id => s1 = s2)
    /\ [][(last'.op = "create_session" /\ last'.sid \in SessionIdsOf(db)) =>
             (raised' = "IntegrityError" /\ db' = db)]_vars

\* the last store call was a create with an id already in the table
C9_Witness ==
    /\ last.op = "create_session" /\ raised = "IntegrityError"
    /\ \E s \in db.sessions : s.session_id = last.sid

\* ================================================================== C10
\* C10: get_all_sessions lists exactly the sessions that have at least one
\* message, each of them once.
C10_ListingOnlySessionsWithMessages ==
    variant = "Sqlite" =>
       \A L \in Sqlite_get_all_sessions(db) :
          /\ {L[k].session_id : k \in DOMAIN L}
                = {s.session_id : s \in {s \in db.sessions :
                                           RowsOf(db, s.session_id) # {}}}
          /\ \A j, k \in DOMAIN L : j # k => L[j].session_id # L[k].session_id

\* one session with two messages is listed, one without messages is not
C10_Witness ==
    /\ variant = "Sqlite"
    /\ \E s1, s2 \in db.sessions :
          /\ Cardinality(RowsOf(db, s1.session_id)) = 2
          /\ RowsOf(db, s2.session_id) = {}
          /\ \A L \in Sqlite_get_all_sessions(db) : Len(L) = 1

\* ================================================================== C11
\* C11: the listing is most-recently-active first.  With last_updated
\* (Sqlite) the sessions come by last_updated descending and the session of
\* the message appended last is the first entry; with created_at only
\* (Copilot) they come by created_at descending.
C11_ListingMostRecentFirst ==
    IF variant = "Sqlite"
    THEN \A L \in Sqlite_get_all_sessions(db) :
            /\ \A j, k \in DOMAIN L :
                  j < k => L[j].last_updated >= L[k].last_updated
            /\ db.messages # <<>> =>
                  /\ L # <<>>
                  /\ L[1].session_id = db.messages[Len(db.messages)].session_id
    ELSE \A L \in Copilot_get_sessions(db) :
            \A j, k \in DOMAIN L : j < k => L[j].created_at >= L[k].created_at

\* the session listed first is older than the one listed second: a message
\* appended to it moved it to the front
C11_Witness ==
    /\ variant = "Sqlite"
    /\ \E L \in Sqlite_get_all_sessions(db) :
          Len(L) = 2 /\ L[1].created_at < L[2].created_at

\* ================================================================== C12
\* the user message of a session that was inserted first ("" if none)
EarliestUserMessage(d, session_id) ==
    LET u == SelectSeq(InInsertionOrder(d, session_id),
                       LAMBDA m : m.role = "user")
    IN IF u = <<>> THEN "" ELSE u[1].content

C13_ConnectionReleased == conn = "closed"

\* ================================================================== C14
\* C14: in every state of the UI flows every message row references an
\* existing session row that was created no later than the message, and the
\* current session id of the UI, once set, refers to an existing session row.
C14_SessionPrecedesMessages ==
    /\ \A i \in DOMAIN db.messages :
          \E s \in db.sessions :
              /\ s.session_id = db.messages[i].session_id
              /\ s.created_at <= db.messages[i].timestamp
    /\ CurrentSession # Unset =>
          \E s \in db.sessions : s.session_id = CurrentSession

\* messages in two sessions, and the UI has gone back to the older session
C14_Witness ==
    /\ \E i, j \in DOMAIN db.messages :
          db.messages[i].session_id # db.messages[j].session_id
    /\ \E s, o \in db.sessions :
          /\ s.session_id = CurrentSession
          /\ s.created_at < o.created_at

\* ================================================================== C15
IsPrefix(a, b) == Len(a) <= Len(b) /\ SubSeq(b, 1, Len(a)) = a

\* the rows of a session carry non-decreasing clock readings
NonDecreasing(d, session_id) ==
    \A i, j \in RowsOf(d, session_id) :
        i < j => d.messages[i].timestamp <= d.messages[j].timestamp

\* what get_session_messages can return, in either variant
Retrieved(d, session_id) ==
    IF variant = "Sqlite" THEN Sqlite_get_session_messages(d, session_id)
    ELSE Copilot_get_session_messages(d, session_id)

C16_LastUpdatedTracksMessages ==
    variant = "Sqlite" =>
        \A s \in db.sessions :
            LET I == {i \in DOMAIN db.messages :
                        db.messages[i].session_id = s.session_id}
            IN IF I = {} THEN s.last_updated = s.created_at
               ELSE \E i \in I :
                       /\ \A j \in I : j <= i
                       /\ s.last_updated = db.messages[i].timestamp

\* a session with messages whose last_updated has moved twice (user message
\* and reply), next to a session that has none
C16_Witness ==
    /\ variant = "Sqlite"
    /\ \E s, o \in db.sessions :
          /\ Cardinality({i \in DOMAIN db.messages :
                            db.messages[i].session_id = s.session_id}) = 2
          /\ s.last_updated > s.created_at
          /\ \A i \in DOMAIN db.messages : db.messages[i].session_id # o.session_id

\* ================================================================== C17
\* the number of bubbles of one role in a rendered transcript
Turns(transcript, role) ==
    Cardinality({k \in DOMAIN transcript : transcript[k][1] = role})

\* C17: after a retry whose gateway call succeeds, the transcript of the
\* session as retrieved and rendered has as many user turns as before the
\* retry and one assistant turn more.
C17_RetryKeepsUserTurns ==
    (pc = "idle" /\ last.op = "retry" /\ last.outcome = "ok") =>
        \A new \in Transcripts(db, last.sid) :
            \A old \in Transcripts(PreDb, last.sid) :
                /\ Turns(new, "user") = Turns(old, "user")
                /\ Turns(new, "assistant") = Turns(old, "assistant") + 1

\* ================================================================== C18
\* C18: in the Sqlite variant, after every completed UI event the cached
\* transcript st.session_state.messages is what get_session_messages returns
\* for the current session id.
C18_CacheEqualsStore ==
    (variant = "Sqlite" /\ pc = "idle" /\ CurrentSession # Unset) =>
        Sqlite_get_session_messages(db, CurrentSession)
            = {session_state.messages}

\* a turn has failed at the gateway in a session selected from the sidebar:
\* the cache was loaded from the store and has since grown by the user
\* message alone
C18_Witness ==
    /\ variant = "Sqlite" /\ pc = "idle"
    /\ last.op = "input" /\ last.outcome # "ok"
    /\ last.sid = CurrentSession
    /\ Len(session_state.messages) = 3
    /\ \E s \in db.sessions :
          s.session_id # CurrentSession /\ s.created_at > last.pre[1].timestamp

\* ================================================================== C19
\* the widget keys the history loop generates for the rows of a transcript
HistoryKeys(messages) ==
    [k \in 1..(2 * Len(messages)) |->
        IF k % 2 = 1 THEN WidgetKey("retry_", messages[(k + 1) \div 2].user_message)
        ELSE WidgetKey("copy_", messages[k \div 2].user_message)]

\* C19: in the Copilot variant, in every state, the Retry and Copy widget
\* keys generated while rendering the transcript of the current session are
\* pairwise distinct.
C19_WidgetKeysDistinct ==
    (variant = "Copilot" /\ CurrentSession # Unset) =>
        \A messages \in Copilot_get_session_messages(db, CurrentSession) :
            \A j, k \in DOMAIN HistoryKeys(messages) :
                j # k => HistoryKeys(messages)[j] # HistoryKeys(messages)[k]

====
